---- MODULE Spec2Model ----
(***************************************************************************)
(* Model of the scheduled-tweet engine (the scheduler module whose text    *)
(* is carried in src/README.md, lines 153-385): the JSON schedule file,    *)
(* the activeJobs map, the cron jobs created by startScheduler, and the    *)
(* asynchronous firing callback suspended in postTweetFn.                  *)
(***************************************************************************)
EXTENDS Integers, Sequences, FiniteSets, TLC

\* ------------------------------------------------------------------ bounds
\* Tweets scheduled over a run, cron jobs alive in the process and timer ticks
\* over a run, taken together.
MaxEvents == 5

\* Files handed to the composer's addMedia over a run.
MaxUploads == 5

\* ------------------------------------------------------- program constants
MaxTweetLength == 280
Null == 0           \* JSON null of lastPosted; the clock starts at 1
NotFound == 0       \* findIndex's -1, with 1-based sequences

VARIABLES
    file,        \* data/scheduled-tweets.json: [exists, scheduled]
    activeJobs,  \* the Map id -> job handle
    jobs,        \* the cron jobs of this process: handle -> [tweet, cronExpression, running]
    inflight,    \* handle -> number of callbacks suspended in postTweetFn
    proc,        \* "up" | "down": the node process
    writable,    \* what writeFileSync does: "ok" | "denied" | "cut"
    nextId,      \* what generateId returns next
    ticks,       \* timer ticks so far: the clock moves with them
    removed,     \* history: ids for which removeScheduledTweet returned true
    okCount,     \* history: id -> completed firings whose postTweetFn resolved
    okTime,      \* history: id -> the clock when the last of them completed
    last,        \* history: the operation that produced this state
    mediaFiles,  \* the composer store's mediaFiles array
    nextMediaId  \* the id addMedia gives to the next file

\* The scheduler module's state and the composer store's.
schedulerVars == <<file, activeJobs, jobs, inflight, proc, writable, nextId, ticks,
                   removed, okCount, okTime, last>>
composerVars == <<mediaFiles, nextMediaId>>

vars == <<file, activeJobs, jobs, inflight, proc, writable, nextId, ticks,
          removed, okCount, okTime, last, mediaFiles, nextMediaId>>

\* new Date(): cron ticks are what separates two readings of the clock
now == ticks + 1

\* ------------------------------------------------------------------ inputs
\* A text is its length in two parts: the core from the first to the last
\* non-whitespace character, and the whitespace around it.
Texts == { [core |-> 0, pad |-> 0], [core |-> 0, pad |-> 1],
           [core |-> 279, pad |-> 1], [core |-> 280, pad |-> 1],
           [core |-> 281, pad |-> 0] }

Length(text) == text.core + text.pad

\* String.prototype.trim
trim(text) == [core |-> text.core, pad |-> 0]

\* A recurrence expression is its sequence of fields; Star is "*".
Star == -1
DailyAtNine == <<0, 9, Star, Star, Star>>
ThreeFields == <<Star, Star, Star>>
BadMinute == <<99, Star, Star, Star, Star>>
Crons == {DailyAtNine, ThreeFields, BadMinute}

FieldMin == <<0, 0, 1, 1, 0>>
FieldMax == <<59, 23, 31, 12, 7>>

\* node-cron's validate, as section 4.2 of the specification describes it.
cron_validate(expression) ==
    /\ Len(expression) = 5
    /\ \A i \in 1..5 :
          \/ expression[i] = Star
          \/ (expression[i] >= FieldMin[i] /\ expression[i] <= FieldMax[i])

Ids == 1..MaxEvents
Handles == 1..MaxEvents

\* ------------------------------------------------------------------- store
\* No file yet: the empty array; otherwise the document's "scheduled" array.
loadScheduledTweets == IF file.exists THEN file.scheduled ELSE <<>>

\* What writeFileSync can do. "ok": the document is replaced. "denied": it
\* throws when it opens the file, which stays as it is. "cut": it throws while
\* writing, after the open has truncated the file.
WriteModes == {"ok", "denied", "cut"}

\* the file left as it was by every failed write
cutFileKept == file

\* A file cut short by a failed write: it exists and JSON.parse throws on what
\* it holds, so loadScheduledTweets returns [] from its catch block.
cutFile == [exists |-> TRUE, scheduled |-> <<>>]

\* The file after saveScheduledTweets: when writeFileSync throws, the catch
\* block logs and returns.
saveScheduledTweets(tweets) ==
    CASE writable = "ok" -> [exists |-> TRUE, scheduled |-> tweets]
      [] writable = "denied" -> file
      [] writable = "cut" -> cutFile

IdsOf(tweets) == { tweets[i].id : i \in 1..Len(tweets) }

\* Array.prototype.findIndex on t.id === id
findIndex(tweets, id) ==
    IF \E i \in 1..Len(tweets) : tweets[i].id = id
    THEN CHOOSE i \in 1..Len(tweets) :
            /\ tweets[i].id = id
            /\ \A k \in 1..(i - 1) : tweets[k].id # id
    ELSE NotFound

\* splice that removes nothing
spliceNothing(tweets, index) == tweets

\* Array.prototype.splice(index, 1)
splice(tweets, index) ==
    [k \in 1..(Len(tweets) - 1) |-> IF k < index THEN tweets[k] ELSE tweets[k + 1]]

\* Map.prototype.delete
MapDelete(map, id) == [k \in (DOMAIN map) \ {id} |-> map[k]]

Empty == [k \in {} |-> 0]

\* What the run has used of MaxEvents.
Events == (nextId - 1) + Len(jobs) + ticks

NoEntity == [id |-> 0]

\* What an operation did: the id it acted on, whether it succeeded (returned
\* true, returned an entity, resolved), whether it called saveScheduledTweets,
\* the error it raised or logged, and the value it returned.
Obs(op, id, ok, saved, err, out) ==
    [op |-> op, id |-> id, ok |-> ok, saved |-> saved, err |-> err, out |-> out]

\* --------------------------------------------------------------- scheduleTweet
\* the new tweet put in front
unshift(array, tweet) == <<tweet>> \o array

\* Array.prototype.push
push(array, tweet) == Append(array, tweet)

\* the length check written >= instead of >
validationErrorOffByOne(text, cronExpression) ==
    IF ~cron_validate(cronExpression) THEN "cron"
    ELSE IF Length(text) = 0 \/ Length(trim(text)) = 0 THEN "empty"
    ELSE IF Length(text) >= MaxTweetLength THEN "length"
    ELSE "none"

\* the emptiness check made without trim()
validationErrorUntrimmed(text, cronExpression) ==
    IF ~cron_validate(cronExpression) THEN "cron"
    ELSE IF Length(text) = 0 THEN "empty"
    ELSE IF Length(text) > MaxTweetLength THEN "length"
    ELSE "none"

\* the recurrence expression not validated
validationErrorNoCron(text, cronExpression) ==
    IF Length(text) = 0 \/ Length(trim(text)) = 0 THEN "empty"
    ELSE IF Length(text) > MaxTweetLength THEN "length"
    ELSE "none"

\* The three checks of scheduleTweet, in the order the code makes them.
validationError(text, cronExpression) ==
    IF ~cron_validate(cronExpression) THEN "cron"
    ELSE IF Length(text) = 0 \/ Length(trim(text)) = 0 THEN "empty"
    ELSE IF Length(text) > MaxTweetLength THEN "length"
    ELSE "none"

generateId == nextId

\* the entity built with an expression of its own
newTweetOtherCron(text, cronExpression, oneTime) ==
    [id |-> generateId, text |-> trim(text), cronExpression |-> BadMinute,
     oneTime |-> oneTime, createdAt |-> now, lastPosted |-> Null, postCount |-> 0]

\* The entity scheduleTweet builds.
newTweet(text, cronExpression, oneTime) ==
    [id |-> generateId, text |-> trim(text), cronExpression |-> cronExpression,
     oneTime |-> oneTime, createdAt |-> now, lastPosted |-> Null, postCount |-> 0]

scheduleTweet(text, cronExpression, oneTime) ==
    /\ proc = "up"
    /\ LET err == validationError(text, cronExpression)
       IN   IF err # "none"
           THEN /\ last' = Obs("add", 0, FALSE, FALSE, err, NoEntity)
                /\ UNCHANGED <<file, nextId>>
           ELSE /\ Events < MaxEvents
                /\ LET scheduledTweet == newTweet(text, cronExpression, oneTime)
                       tweets == push(loadScheduledTweets, scheduledTweet)
                   IN  /\ file' = saveScheduledTweets(tweets)
                       /\ last' = Obs("add", scheduledTweet.id, TRUE, TRUE, "none",
                                      scheduledTweet)
                /\ nextId' = nextId + 1
    /\ UNCHANGED <<activeJobs, jobs, inflight, proc, writable, ticks, removed, okCount, okTime>>
    /\ UNCHANGED composerVars

\* -------------------------------------------------------- removeScheduledTweet
\* job.stop() on every job the map holds
stopJobAll(js, map, id) ==
    [j \in 1..Len(js) |->
        IF \E k \in DOMAIN map : map[k] = j
        THEN [js[j] EXCEPT !.running = FALSE] ELSE js[j]]

\* job.stop() on the job the map holds for id
stopJob(js, map, id) ==
    IF id \in DOMAIN map THEN [js EXCEPT ![map[id]].running = FALSE] ELSE js

\* the delete left out
unregisterForgotten(map, id) == map

\* activeJobs.delete(id)
unregister(map, id) == MapDelete(map, id)

removeScheduledTweet(id) ==
    /\ proc = "up"
    /\ LET tweets == loadScheduledTweets
           index == findIndex(tweets, id)
       IN  IF index = NotFound
           THEN /\ last' = Obs("remove", id, FALSE, FALSE, "notfound", NoEntity)
                /\ UNCHANGED <<file, jobs, activeJobs, removed>>
           ELSE /\ file' = saveScheduledTweets(splice(tweets, index))
                /\ jobs' = stopJob(jobs, activeJobs, id)
                /\ activeJobs' = unregister(activeJobs, id)
                /\ removed' = removed \cup {id}
                /\ last' = Obs("remove", id, TRUE, TRUE, "none", tweets[index])
    /\ UNCHANGED <<inflight, proc, writable, nextId, ticks, okCount, okTime>>
    /\ UNCHANGED composerVars

\* --------------------------------------------------------- listScheduledTweets
\* only the tweets that have been posted
listedPosted == SelectSeq(loadScheduledTweets, LAMBDA t : t.lastPosted # Null)

\* The array listScheduledTweets returns: the one it loaded.
listed == loadScheduledTweets

listScheduledTweets ==
    /\ proc = "up"
    /\ last' = Obs("list", 0, TRUE, FALSE, "none", listed)
    /\ UNCHANGED <<file, activeJobs, jobs, inflight, proc, writable, nextId,
                   ticks, removed, okCount, okTime>>
    /\ UNCHANGED composerVars

\* -------------------------------------------------------------- startScheduler
\* cron.schedule for every loaded tweet: the callback closes over the tweet.
\* Of the tweet it closes over, the callback reads id, text and oneTime.
closure(tweet) == [id |-> tweet.id, text |-> tweet.text, oneTime |-> tweet.oneTime]

\* Each job is scheduled on the expression of the tweet it is created for.
scheduledJobs(tweets) ==
    [k \in 1..Len(tweets) |->
        [tweet |-> closure(tweets[k]), cronExpression |-> tweets[k].cronExpression,
         running |-> TRUE]]

\* only the first loaded tweet's job put in the map
registeredFirstOnly(map, tweets, base) ==
    [id \in (DOMAIN map) \cup {tweets[1].id} |->
        IF id = tweets[1].id THEN base + 1 ELSE map[id]]

\* activeJobs.set(tweet.id, job) for every loaded tweet, in order; base is the
\* number of jobs that existed before.
registered(map, tweets, base) ==
    [id \in (DOMAIN map) \cup IdsOf(tweets) |->
        IF id \in IdsOf(tweets)
        THEN base + (CHOOSE k \in 1..Len(tweets) :
                        /\ tweets[k].id = id
                        /\ \A m \in (k + 1)..Len(tweets) : tweets[m].id # id)
        ELSE map[id]]

startScheduler ==
    /\ proc = "up"
    /\ LET tweets == loadScheduledTweets
       IN  IF Len(tweets) = 0
           THEN UNCHANGED <<jobs, inflight, activeJobs>>
           ELSE /\ Events + Len(tweets) <= MaxEvents
                /\ jobs' = jobs \o scheduledJobs(tweets)
                /\ inflight' = inflight \o [k \in 1..Len(tweets) |-> 0]
                /\ activeJobs' = registered(activeJobs, tweets, Len(jobs))
    /\ last' = Obs("start", 0, TRUE, FALSE, "none", NoEntity)
    /\ UNCHANGED <<file, proc, writable, nextId, ticks, removed,
                   okCount, okTime>>
    /\ UNCHANGED composerVars

\* ------------------------------------------------------------ firing callback
\* A running job's timer ticks: the callback starts and suspends in
\* postTweetFn(tweet.text).
Tick(j) ==
    /\ proc = "up"
    /\ j \in 1..Len(jobs)
    /\ jobs[j].running
    /\ Events < MaxEvents
    /\ inflight' = [inflight EXCEPT ![j] = @ + 1]
    /\ ticks' = ticks + 1
    /\ last' = Obs("tick", jobs[j].tweet.id, TRUE, FALSE, "none", jobs[j].tweet)
    /\ UNCHANGED <<file, activeJobs, jobs, proc, writable, nextId, removed, okCount, okTime>>
    /\ UNCHANGED composerVars

\* postCount set, not incremented
updatePostedOnce(allTweets, tweetIndex) ==
    [allTweets EXCEPT ![tweetIndex].lastPosted = now,
                      ![tweetIndex].postCount = 1]

\* lastPosted stamped, postCount left as it is
updatePostedStamp(allTweets, tweetIndex) ==
    [allTweets EXCEPT ![tweetIndex].lastPosted = now]

\* createdAt stamped too
updatePostedTouched(allTweets, tweetIndex) ==
    [allTweets EXCEPT ![tweetIndex].lastPosted = now,
                      ![tweetIndex].postCount = @ + 1,
                      ![tweetIndex].createdAt = now]

\* lastPosted and postCount of the entry found
updatePosted(allTweets, tweetIndex) ==
    [allTweets EXCEPT ![tweetIndex].lastPosted = now,
                      ![tweetIndex].postCount = @ + 1]

\* the one-time entry saved with its counters instead of spliced out
postedTweetsKept(tweet, allTweets, tweetIndex) ==
    [allTweets EXCEPT ![tweetIndex].lastPosted = now,
                      ![tweetIndex].postCount = @ + 1]

\* The array the callback saves: the entry updated, or spliced out when the
\* closure's tweet is one-time.
postedTweets(tweet, allTweets, tweetIndex) ==
    IF tweet.oneTime
    THEN splice(updatePosted(allTweets, tweetIndex), tweetIndex)
    ELSE updatePosted(allTweets, tweetIndex)

\* the closure's tweet pushed back when the entry is gone
skippedWriteBack(j) ==
    [file |-> saveScheduledTweets(Append(loadScheduledTweets,
                 [id |-> jobs[j].tweet.id, text |-> jobs[j].tweet.text,
                  cronExpression |-> DailyAtNine, oneTime |-> jobs[j].tweet.oneTime,
                  createdAt |-> now, lastPosted |-> now, postCount |-> 1])),
     jobs |-> jobs, activeJobs |-> activeJobs, saved |-> TRUE]

\* tweetIndex === -1: the callback does nothing more.
skipped(j) ==
    [file |-> file, jobs |-> jobs, activeJobs |-> activeJobs, saved |-> FALSE]

\* What the callback of job j does once postTweetFn has resolved.
firingResolved(j) ==
    LET tweet == jobs[j].tweet
        allTweets == loadScheduledTweets
        tweetIndex == findIndex(allTweets, tweet.id)
    IN  IF tweetIndex = NotFound THEN skipped(j)
        ELSE [file |-> saveScheduledTweets(postedTweets(tweet, allTweets, tweetIndex)),
              jobs |-> IF tweet.oneTime THEN [jobs EXCEPT ![j].running = FALSE]
                       ELSE jobs,
              activeJobs |-> IF tweet.oneTime THEN unregister(activeJobs, tweet.id)
                             ELSE activeJobs,
              saved |-> TRUE]

\* the counters updated in the catch block too
firingRejectedCounted(j) ==
    LET allTweets == loadScheduledTweets
        tweetIndex == findIndex(allTweets, jobs[j].tweet.id)
    IN  IF tweetIndex = NotFound THEN skipped(j)
        ELSE [file |-> saveScheduledTweets(updatePosted(allTweets, tweetIndex)),
              jobs |-> jobs, activeJobs |-> activeJobs, saved |-> TRUE]

\* the one-time entry spliced out in the catch block too
firingRejectedSpliced(j) ==
    LET tweet == jobs[j].tweet
        allTweets == loadScheduledTweets
        tweetIndex == findIndex(allTweets, tweet.id)
    IN  IF tweetIndex = NotFound \/ ~tweet.oneTime THEN skipped(j)
        ELSE [file |-> saveScheduledTweets(splice(allTweets, tweetIndex)),
              jobs |-> [jobs EXCEPT ![j].running = FALSE],
              activeJobs |-> unregister(activeJobs, tweet.id), saved |-> TRUE]

\* the job stopped in the catch block
firingRejectedStopped(j) ==
    [file |-> file, jobs |-> [jobs EXCEPT ![j].running = FALSE],
     activeJobs |-> activeJobs, saved |-> FALSE]

\* What the callback of job j does once postTweetFn has rejected: the catch
\* block logs.
firingRejected(j) ==
    [file |-> file, jobs |-> jobs, activeJobs |-> activeJobs, saved |-> FALSE]

PostResolved(j) ==
    /\ proc = "up"
    /\ j \in 1..Len(jobs)
    /\ inflight[j] > 0
    /\ LET r == firingResolved(j)
           id == jobs[j].tweet.id
       IN  /\ file' = r.file
           /\ jobs' = r.jobs
           /\ activeJobs' = r.activeJobs
           /\ okCount' = [okCount EXCEPT ![id] = @ + 1]
           /\ okTime' = [okTime EXCEPT ![id] = now]
           /\ last' = Obs("fireOk", id, TRUE, r.saved, "none", jobs[j].tweet)
    /\ inflight' = [inflight EXCEPT ![j] = @ - 1]
    /\ UNCHANGED <<proc, writable, nextId, ticks, removed>>
    /\ UNCHANGED composerVars

PostRejected(j) ==
    /\ proc = "up"
    /\ j \in 1..Len(jobs)
    /\ inflight[j] > 0
    /\ LET r == firingRejected(j)
           id == jobs[j].tweet.id
       IN  /\ file' = r.file
           /\ jobs' = r.jobs
           /\ activeJobs' = r.activeJobs
           /\ last' = Obs("fireFail", id, FALSE, r.saved, "rejected", jobs[j].tweet)
    /\ inflight' = [inflight EXCEPT ![j] = @ - 1]
    /\ UNCHANGED <<proc, writable, nextId, ticks, removed, okCount, okTime>>
    /\ UNCHANGED composerVars

\* ------------------------------------------------------------------- process
\* activeJobs.forEach((job) => job.stop())
stopAll(js, map) ==
    [j \in 1..Len(js) |->
        IF \E id \in DOMAIN map : map[id] = j
        THEN [js[j] EXCEPT !.running = FALSE] ELSE js[j]]

\* the jobs stopped and the process left running
sigintWithoutExit(js, map) == stopAll(js, map)

\* The jobs after the SIGINT handler: those of activeJobs are stopped, then
\* process.exit(0) ends the process and every job with it.
sigint(js, map) == SubSeq(stopAll(js, map), 1, 0)

\* The jobs whose timer is running.
running(js) == { j \in 1..Len(js) : js[j].running }

\* The SIGINT handler. Callbacks suspended in postTweetFn end with the
\* process.
Shutdown ==
    /\ proc = "up"
    /\ proc' = "down"
    /\ jobs' = sigint(jobs, activeJobs)
    /\ inflight' = [j \in 1..Len(jobs') |-> 0]
    /\ activeJobs' = Empty
    /\ last' = Obs("sigint", 0, TRUE, FALSE, "none",
                   [id |-> 0, live |-> Cardinality(running(jobs))])
    /\ UNCHANGED <<file, writable, nextId, ticks, removed, okCount, okTime>>
    /\ UNCHANGED composerVars

\* A new process: the module is loaded again, activeJobs is a new Map.
Restart ==
    /\ proc = "down"
    /\ proc' = "up"
    /\ last' = Obs("boot", 0, TRUE, FALSE, "none", NoEntity)
    /\ UNCHANGED <<file, activeJobs, jobs, inflight, writable, nextId, ticks,
                   removed, okCount, okTime>>
    /\ UNCHANGED composerVars

\* -------------------------------------------------------------------- Init
Init ==
    /\ file = [exists |-> FALSE, scheduled |-> <<>>]
    /\ activeJobs = Empty
    /\ jobs = <<>>
    /\ inflight = <<>>
    /\ proc = "up"
    /\ writable = "ok"
    /\ nextId = 1
    /\ ticks = 0
    /\ removed = {}
    /\ okCount = [i \in Ids |-> 0]
    /\ okTime = [i \in Ids |-> Null]
    /\ last = [op |-> "init", id |-> 0, ok |-> TRUE, saved |-> FALSE, err |-> "none",
               out |-> NoEntity]
    /\ mediaFiles = <<>>
    /\ nextMediaId = 1

Next ==
    \/ \E text \in Texts, cronExpression \in Crons, oneTime \in BOOLEAN :
          scheduleTweet(text, cronExpression, oneTime)
    \/ \E id \in 1..nextId : removeScheduledTweet(id)
    \/ listScheduledTweets
    \/ startScheduler
    \/ \E j \in Handles : Tick(j)
    \/ \E j \in Handles : PostResolved(j)
    \/ \E j \in Handles : PostRejected(j)
    \/ Shutdown
    \/ Restart

Spec == Init /\ [][Next]_vars

\* --------------------------------------------------------------- write faults
\* From now on writeFileSync throws, in one of the two ways.
WriteFails(mode) ==
    /\ writable = "ok"
    /\ writable' = mode
    /\ last' = Obs("fault", 0, TRUE, FALSE, mode, NoEntity)
    /\ UNCHANGED <<file, activeJobs, jobs, inflight, proc, nextId, ticks,
                   removed, okCount, okTime>>
    /\ UNCHANGED composerVars

NextFault ==
    \/ Next
    \/ \E mode \in WriteModes \ {"ok"} : WriteFails(mode)

\* The engine with a file system on which writes can start to fail.
SpecFault == Init /\ [][NextFault]_vars

\* ------------------------------------------------------------ composer store
\* A selected File is its MIME type, as <<type, subtype>>.
Files == { <<"image", "png">>, <<"video", "mp4">> }

\* What the file input hands to addMedia in one selection.
Selections ==
    { <<f>> : f \in Files } \cup { <<f, g>> : f \in Files, g \in Files } \cup
    { [k \in 1..5 |-> <<"image", "png">>] }

\* file.type.startsWith('video/') ? 'video' : 'image'
mediaType(f) == IF f[1] = "video" THEN "video" ELSE "image"

\* The MediaFile entries addMedia builds; mediaId is 0 until uploaded.
newMedia(files) ==
    [k \in 1..Len(files) |->
        [id |-> nextMediaId + k - 1, type |-> mediaType(files[k]),
         uploading |-> FALSE, mediaId |-> 0, error |-> FALSE]]

\* newMedia.some(m => m.type === 'video') ? 1 : 4
maxFiles(media) ==
    IF \E k \in 1..Len(media) : media[k].type = "video" THEN 1 ELSE 4

\* Array.prototype.slice(0, n)
slice(array, n) == SubSeq(array, 1, IF Len(array) < n THEN Len(array) ELSE n)

addMedia(files) ==
    /\ nextMediaId + Len(files) - 1 <= MaxUploads
    /\ mediaFiles' = slice(mediaFiles \o newMedia(files), maxFiles(newMedia(files)))
    /\ nextMediaId' = nextMediaId + Len(files)
    /\ UNCHANGED schedulerVars

removeMedia(id) ==
    /\ mediaFiles' = SelectSeq(mediaFiles, LAMBDA m : m.id # id)
    /\ UNCHANGED <<nextMediaId, schedulerVars>>

\* The updates the composer passes while it uploads: started, uploaded,
\* failed.
Updates ==
    { [uploading |-> TRUE],
      [uploading |-> FALSE, mediaId |-> 1],
      [uploading |-> FALSE, error |-> TRUE] }

\* { ...m, ...updates }
merged(m, updates) ==
    [f \in DOMAIN m |-> IF f \in DOMAIN updates THEN updates[f] ELSE m[f]]

updateMedia(id, updates) ==
    /\ mediaFiles' = [k \in 1..Len(mediaFiles) |->
                         IF mediaFiles[k].id = id
                         THEN merged(mediaFiles[k], updates) ELSE mediaFiles[k]]
    /\ UNCHANGED <<nextMediaId, schedulerVars>>

clearMedia ==
    /\ mediaFiles' = <<>>
    /\ UNCHANGED <<nextMediaId, schedulerVars>>

\* set(initialState), of which only mediaFiles is modelled
reset ==
    /\ mediaFiles' = <<>>
    /\ UNCHANGED <<nextMediaId, schedulerVars>>

NextComposer ==
    \/ \E files \in Selections : addMedia(files)
    \/ \E id \in 1..MaxUploads : removeMedia(id)
    \/ \E id \in 1..MaxUploads, updates \in Updates : updateMedia(id, updates)
    \/ clearMedia
    \/ reset

SpecComposer == Init /\ [][NextComposer]_vars

\* ------------------------------------------------------------ a daemon run
\* One process in which no SIGINT arrives and removeScheduledTweet is not
\* called.
NextLive ==
    \/ \E text \in Texts, cronExpression \in Crons, oneTime \in BOOLEAN :
          scheduleTweet(text, cronExpression, oneTime)
    \/ listScheduledTweets
    \/ startScheduler
    \/ \E j \in Handles : Tick(j)
    \/ \E j \in Handles : PostResolved(j)
    \/ \E j \in Handles : PostRejected(j)

\* A running job's timer ticks again, and a pending postTweetFn that is not
\* rejected resolves.
Fairness ==
    \A j \in Handles : WF_vars(Tick(j)) /\ WF_vars(PostResolved(j))

SpecLive == Init /\ [][NextLive]_vars /\ Fairness

\* ====================================================================== claims
tweets == loadScheduledTweets
StoreIds == IdsOf(loadScheduledTweets)

\* C1: a one-time entry never stays in the store once a firing of it has
\* completed with postTweetFn resolved, and no one-time entry is ever in the
\* store with postCount > 0.
C1_OneShot ==
    \A i \in 1..Len(tweets) :
        tweets[i].oneTime =>
            /\ okCount[tweets[i].id] = 0
            /\ tweets[i].postCount = 0
            /\ tweets[i].lastPosted = Null

\* A resolved firing of a one-time entry has just spliced it out and saved.
C1_Witness ==
    /\ last.op = "fireOk"
    /\ last.out.oneTime
    /\ last.saved
    /\ last.id \notin StoreIds
    /\ okCount[last.id] = 1

\* C2: a recurring entry still in the store after two resolved firings has
\* postCount 2 and lastPosted equal to the clock at the second completion.
C2_Recurring ==
    \A i \in 1..Len(tweets) :
        (~tweets[i].oneTime /\ okCount[tweets[i].id] = 2) =>
            /\ tweets[i].postCount = 2
            /\ tweets[i].lastPosted = okTime[tweets[i].id]
            /\ tweets[i].lastPosted # Null

\* The second firing completed after a later tick than the first.
C2_Witness ==
    /\ last.op = "fireOk"
    /\ last.id \in StoreIds
    /\ okCount[last.id] = 2
    /\ \E i \in 1..Len(tweets) :
          /\ tweets[i].id = last.id
          /\ tweets[i].lastPosted = now
          /\ tweets[i].lastPosted > tweets[i].createdAt + 1

\* C3: the callback of a firing whose postTweetFn rejects leaves the file as
\* it is (the entry's postCount, lastPosted and presence with it), calls no
\* save, and leaves the jobs and the registry alone.
C3_FailureIsolation ==
    [][\A j \in Handles :
          PostRejected(j) =>
              /\ file' = file
              /\ ~last'.saved
              /\ activeJobs' = activeJobs
              /\ jobs' = jobs]_vars

\* A firing of an entry that has already been posted once has been rejected.
C3_Witness ==
    /\ last.op = "fireFail"
    /\ \E i \in 1..Len(tweets) : tweets[i].id = last.id /\ tweets[i].postCount = 1

\* C4: while the process runs, every id of activeJobs is an id of the store.
C4_RegistrySubset == proc = "up" => DOMAIN activeJobs \subseteq StoreIds

\* An entry has been removed while another one stays registered.
C4_Witness ==
    /\ last.op = "remove"
    /\ last.ok
    /\ DOMAIN activeJobs # {}
    /\ DOMAIN activeJobs \subseteq StoreIds

\* C5: removeScheduledTweet(id) right after the scheduleTweet that returned id
\* returns true and leaves a store without id; on an id it has already
\* removed it returns false and changes neither the file nor the registry.
C5_RemoveTwice ==
    [][\A id \in Ids :
          removeScheduledTweet(id) =>
              /\ (last.op = "add" /\ last.ok /\ last.id = id) =>
                    (last'.ok /\ id \notin IdsOf(loadScheduledTweets'))
              /\ (id \in removed) =>
                    /\ ~last'.ok
                    /\ file' = file
                    /\ activeJobs' = activeJobs
                    /\ jobs' = jobs]_vars

\* The second removal of an id has returned false.
C5_Witness ==
    /\ last.op = "remove"
    /\ ~last.ok
    /\ last.id \in removed
    /\ Len(tweets) > 0

\* The recurrence expressions the validator accepts.
ValidCrons == { c \in Crons : cron_validate(c) }

\* The texts C6 is stated for: non-empty and of at most 280 units.
C6_StatedTexts == { t \in Texts : Length(t) > 0 /\ Length(t) <= MaxTweetLength }

\* The same with the text non-empty after trimming.
C6_AmendedTexts ==
    { t \in Texts : Length(trim(t)) > 0 /\ Length(t) <= MaxTweetLength }

\* C6 as stated: every text that is non-empty and of at most 280 units is
\* accepted with every valid expression, and the returned entity is in the
\* store afterwards with lastPosted null and postCount 0.
C6_AsStated ==
    [][( /\ last'.op = "add"
         /\ \E text \in C6_StatedTexts, cronExpression \in ValidCrons,
               oneTime \in BOOLEAN :
               scheduleTweet(text, cronExpression, oneTime) ) =>
           /\ last'.ok
           /\ \E i \in 1..Len(loadScheduledTweets') :
                 loadScheduledTweets'[i] = last'.out
           /\ last'.out.lastPosted = Null
           /\ last'.out.postCount = 0]_vars

\* C6 amended: every text that is non-empty after trimming and of at most 280
\* units is accepted with every valid expression, and the returned entity is
\* in the store afterwards, field for field, with lastPosted null and
\* postCount 0.
C6_RoundTrip ==
    [][( /\ last'.op = "add"
         /\ \E text \in C6_AmendedTexts, cronExpression \in ValidCrons,
               oneTime \in BOOLEAN :
               scheduleTweet(text, cronExpression, oneTime) ) =>
           /\ last'.ok
           /\ \E i \in 1..Len(loadScheduledTweets') :
                 loadScheduledTweets'[i] = last'.out
           /\ last'.out.lastPosted = Null
           /\ last'.out.postCount = 0]_vars

\* A text of exactly 280 units has been scheduled and is in the store as
\* returned, after an entry that was there before.
C6_Witness ==
    /\ last.op = "add"
    /\ last.ok
    /\ last.out.text.core + 1 = MaxTweetLength
    /\ Len(tweets) = 2
    /\ tweets[Len(tweets)] = last.out

\* The texts that are empty after trimming or of 281 units or more.
C7_Texts ==
    { t \in Texts : Length(trim(t)) = 0 \/ Length(t) >= MaxTweetLength + 1 }

\* C7: a text that is empty after trimming, or of 281 units or more, makes
\* scheduleTweet fail with a validation error; the file, the jobs and the
\* registry stay as they were.
C7_TextRejected ==
    [][( /\ last'.op = "add"
         /\ \E text \in C7_Texts, cronExpression \in Crons, oneTime \in BOOLEAN :
               scheduleTweet(text, cronExpression, oneTime) ) =>
           /\ ~last'.ok
           /\ last'.err \in {"cron", "empty", "length"}
           /\ loadScheduledTweets' = loadScheduledTweets
           /\ file' = file
           /\ activeJobs' = activeJobs
           /\ jobs' = jobs]_vars

\* A text has been refused for its length while the store and the registry
\* hold an entry.
C7_Witness ==
    /\ last.op = "add"
    /\ last.err = "length"
    /\ Len(tweets) > 0
    /\ DOMAIN activeJobs # {}

\* The recurrence expressions the validator rejects.
InvalidCrons == { c \in Crons : ~cron_validate(c) }

\* C8: an expression the validator rejects makes scheduleTweet fail whatever
\* the text, the file stays as it was, and no entry of the store ever holds
\* an expression the validator rejects.
C8_CronRejected ==
    /\ [][( /\ last'.op = "add"
            /\ \E text \in Texts, cronExpression \in InvalidCrons,
                  oneTime \in BOOLEAN :
                  scheduleTweet(text, cronExpression, oneTime) ) =>
              /\ ~last'.ok
              /\ last'.err \in {"cron", "empty", "length"}
              /\ file' = file
              /\ loadScheduledTweets' = loadScheduledTweets]_vars
    /\ [](\A i \in 1..Len(tweets) : cron_validate(tweets[i].cronExpression))

\* An expression has been refused while the store holds an entry.
C8_Witness ==
    /\ last.op = "add"
    /\ last.err = "cron"
    /\ Len(tweets) > 0

\* C9: no timer tick starts a firing for an id for which
\* removeScheduledTweet has returned true.
C9_NoFiringAfterRemove == last.op = "tick" => last.id \notin removed

\* C10: when postTweetFn resolves for an id that removeScheduledTweet has
\* removed, the callback saves nothing and the file stays as it is; an id
\* removed that way is never in the store again.
C10_NoWriteBack ==
    /\ [][\A j \in Handles :
             (PostResolved(j) /\ jobs[j].tweet.id \in removed) =>
                 (file' = file /\ ~last'.saved)]_vars
    /\ [](removed \cap StoreIds = {})

\* A firing suspended over a removal has resolved, with another entry in the
\* store.
C10_Witness ==
    /\ last.op = "fireOk"
    /\ last.id \in removed
    /\ ~last.saved
    /\ Len(tweets) > 0

\* startScheduler has created jobs in this process.
engineRunning == proc = "up" /\ Len(jobs) > 0

\* C11: when scheduleTweet has returned an entity while startScheduler has
\* already created jobs in this process, the entity's id is in activeJobs
\* with a running job.
C11_LiveOnAdd ==
    (last.op = "add" /\ last.ok /\ engineRunning) =>
        /\ last.id \in DOMAIN activeJobs
        /\ jobs[activeJobs[last.id]].running

\* C12: a timer tick calls postTweetFn only for an id that is in the store
\* at that moment, with the text and the oneTime flag the store holds for it.
C12_FiresFromStore ==
    last.op = "tick" =>
        \E i \in 1..Len(tweets) :
            /\ tweets[i].id = last.id
            /\ tweets[i].text = last.out.text
            /\ tweets[i].oneTime = last.out.oneTime

\* The running jobs whose callback is for id.
liveJobs(id) == { j \in 1..Len(jobs) : jobs[j].running /\ jobs[j].tweet.id = id }

\* C13: no id ever has two running jobs.
C13_OneLiveTimer == \A id \in Ids : Cardinality(liveJobs(id)) <= 1

\* C14: startScheduler called with an empty activeJobs leaves in it exactly
\* the ids of the loaded store, each mapped to a running job scheduled on the
\* entry's expression; when the store is empty, activeJobs stays empty and no
\* job is created.
C14_StartRebuilds ==
    [][(startScheduler /\ activeJobs = Empty) =>
          /\ DOMAIN activeJobs' = IdsOf(loadScheduledTweets)
          /\ loadScheduledTweets' = loadScheduledTweets
          /\ \A i \in 1..Len(loadScheduledTweets) :
                LET tweet == loadScheduledTweets[i]
                    job == jobs'[activeJobs'[tweet.id]]
                IN  /\ job.running
                    /\ job.cronExpression = tweet.cronExpression
                    /\ job.tweet.id = tweet.id
          /\ Len(loadScheduledTweets) = 0 =>
                (activeJobs' = Empty /\ jobs' = jobs)]_vars

\* startScheduler has just registered two entries in a new process.
C14_Witness ==
    /\ last.op = "start"
    /\ Len(tweets) = 2
    /\ Len(jobs) = 2
    /\ DOMAIN activeJobs = StoreIds
    /\ \A j \in 1..2 : jobs[j].running

\* C15: the SIGINT handler leaves no running job and an empty activeJobs;
\* while the process is down no job is running and no timer ticks, and a
\* tick only ever comes from a job of the running process.
C15_NoFiringAfterSignal ==
    /\ [][Shutdown =>
             /\ proc' = "down"
             /\ activeJobs' = Empty
             /\ running(jobs') = {}]_vars
    /\ [](proc = "down" => running(jobs) = {})
    /\ [][(proc = "down" \/ last.op = "sigint") => ticks' = ticks]_vars

\* The signal has arrived while two jobs were running, one of them after a
\* tick.
C15_Witness ==
    /\ last.op = "sigint"
    /\ last.out.live = 2
    /\ ticks > 0
    /\ proc = "down"

\* C16: the SIGINT handler leaves every callback that is suspended in
\* postTweetFn in flight.
C16_InflightFinishes ==
    [][Shutdown =>
          \A j \in 1..Len(jobs) :
              inflight[j] > 0 =>
                  (j \in DOMAIN inflight' /\ inflight'[j] = inflight[j])]_vars

\* C17: when postTweetFn rejects, the process keeps running, the job keeps
\* its running state and its place in activeJobs, the callback is not entered
\* again (no tick, one callback fewer in flight), and a running job of that
\* entry can tick again.
C17_FailureTerminal ==
    /\ [][\A j \in Handles :
             PostRejected(j) =>
                 /\ proc' = "up"
                 /\ jobs'[j].running = jobs[j].running
                 /\ activeJobs' = activeJobs
                 /\ ticks' = ticks
                 /\ inflight' = [inflight EXCEPT ![j] = @ - 1]]_vars
    /\ [](last.op = "fireFail" =>
             \A j \in running(jobs) :
                 (jobs[j].tweet.id = last.id /\ Events < MaxEvents) =>
                     ENABLED Tick(j))

\* postTweetFn has rejected for a one-time entry: the entry is still in the
\* store, its job is registered and running with no callback in flight, and
\* the next tick can come.
C17_Witness ==
    /\ last.op = "fireFail"
    /\ last.out.oneTime
    /\ last.id \in StoreIds
    /\ last.id \in DOMAIN activeJobs
    /\ jobs[activeJobs[last.id]].running
    /\ inflight[activeJobs[last.id]] = 0
    /\ ENABLED Tick(activeJobs[last.id])

\* C18: when writeFileSync throws inside the saveScheduledTweets of
\* scheduleTweet, removeScheduledTweet or the firing callback, the operation
\* still returns normally and loadScheduledTweets returns afterwards what it
\* returned before.
C18_WriteFailureKeepsStore ==
    [][(writable # "ok" /\ last'.saved) =>
          /\ last'.ok
          /\ loadScheduledTweets' = loadScheduledTweets]_vars

\* C19: listScheduledTweets leaves the file, activeJobs and the jobs as they
\* are and returns what loadScheduledTweets returns, before and after it; a
\* call that follows another call returns the same array.
C19_ListPure ==
    [][listScheduledTweets =>
          /\ file' = file
          /\ activeJobs' = activeJobs
          /\ jobs' = jobs
          /\ inflight' = inflight
          /\ last'.out = loadScheduledTweets
          /\ last'.out = loadScheduledTweets'
          /\ last.op = "list" => last'.out = last.out]_vars

\* The list has been returned with a posted and an unposted entry in it,
\* while a job is registered.
C19_Witness ==
    /\ last.op = "list"
    /\ Len(last.out) = 2
    /\ \E i, k \in 1..2 : last.out[i].postCount > 0 /\ last.out[k].postCount = 0
    /\ DOMAIN activeJobs # {}

\* C20: when scheduleTweet returns an entity, loadScheduledTweets returns
\* afterwards what it returned before with that entity appended: every
\* earlier entry is at its place, unchanged.
C20_AppendsOne ==
    [][( /\ last'.op = "add"
         /\ last'.ok
         /\ \E text \in Texts, cronExpression \in Crons, oneTime \in BOOLEAN :
               scheduleTweet(text, cronExpression, oneTime) ) =>
           /\ loadScheduledTweets' = Append(loadScheduledTweets, last'.out)
           /\ Len(loadScheduledTweets') = Len(loadScheduledTweets) + 1
           /\ \A i \in 1..Len(loadScheduledTweets) :
                 loadScheduledTweets'[i] = loadScheduledTweets[i]]_vars

\* An entity has been appended after two entries, one of them posted.
C20_Witness ==
    /\ last.op = "add"
    /\ last.ok
    /\ Len(tweets) = 3
    /\ tweets[3] = last.out
    /\ \E i \in 1..2 : tweets[i].postCount > 0

\* C21: removeScheduledTweet on an id of the store takes out that entry only:
\* the other entries stay as they are and in their order, the other ids keep
\* their job in activeJobs, and the jobs of the other ids are left alone.
C21_RemoveFrame ==
    [][\A id \in StoreIds :
          (last'.op = "remove" /\ removeScheduledTweet(id)) =>
              /\ last'.ok
              /\ loadScheduledTweets' =
                    SelectSeq(loadScheduledTweets, LAMBDA t : t.id # id)
              /\ DOMAIN activeJobs' = (DOMAIN activeJobs) \ {id}
              /\ \A other \in DOMAIN activeJobs' :
                    activeJobs'[other] = activeJobs[other]
              /\ Len(jobs') = Len(jobs)
              /\ \A j \in 1..Len(jobs) :
                    jobs[j].tweet.id # id => jobs'[j] = jobs[j]
              /\ inflight' = inflight]_vars

\* The first of two registered entries has been removed: the second is in
\* the store and its job is registered and running.
C21_Witness ==
    /\ last.op = "remove"
    /\ last.ok
    /\ Len(tweets) = 1
    /\ tweets[1].id > last.id
    /\ tweets[1].id \in DOMAIN activeJobs
    /\ jobs[activeJobs[tweets[1].id]].running
    /\ ~jobs[1].running

\* The entry of the store with this id.
entry(id) == tweets[findIndex(tweets, id)]

\* C22: an id leaves the store only by a removeScheduledTweet that returns
\* true for it or by a resolved firing of it as a one-time entry; an entry
\* that stays changes only by a resolved firing of it as a recurring entry;
\* an id enters the store only as the new id of a scheduleTweet, so an id
\* that has left the store is never in it again.
C22_StateMachine ==
    /\ [][file' # file => \A id \in StoreIds \cup StoreIds' :
             /\ (id \in StoreIds /\ id \notin StoreIds') =>
                   \/ (last'.op = "remove" /\ last'.ok /\ last'.id = id)
                   \/ (last'.op = "fireOk" /\ last'.id = id /\ last'.out.oneTime)
             /\ (id \in StoreIds /\ id \in StoreIds' /\ entry(id)' # entry(id)) =>
                   (last'.op = "fireOk" /\ last'.id = id /\ ~last'.out.oneTime)
             /\ (id \notin StoreIds /\ id \in StoreIds') =>
                   (last'.op = "add" /\ last'.ok /\ last'.id = id /\ id = nextId)
         ]_vars
    /\ [](\A id \in StoreIds : id < nextId)
    /\ [][nextId' >= nextId]_vars

\* A firing has resolved for an id that has left the store, while an id
\* created later is in the store.
C22_Witness ==
    /\ last.op = "fireOk"
    /\ last.id \notin StoreIds
    /\ last.id < nextId
    /\ \E id \in StoreIds : id > last.id

\* C25 as stated: once a firing of a one-time entry has completed, with
\* postTweetFn resolved or rejected, the entry is not in the store.
C25_AsStated ==
    (last.op \in {"fireOk", "fireFail"} /\ last.out.oneTime) =>
        last.id \notin StoreIds

\* C25 amended: once a firing of a one-time entry has completed with
\* postTweetFn resolved, the entry is not in the store; a firing of it that
\* completes with postTweetFn rejected leaves it in the store, unless
\* another firing or a removal has taken it out.
C25_RemovedOnSuccess ==
    /\ (last.op = "fireOk" /\ last.out.oneTime) => last.id \notin StoreIds
    /\ ( /\ last.op = "fireFail"
         /\ last.out.oneTime
         /\ okCount[last.id] = 0
         /\ last.id \notin removed ) => last.id \in StoreIds

\* The first firing of a one-time entry has been rejected and the second has
\* resolved: the entry is gone.
C25_Witness ==
    /\ last.op = "fireOk"
    /\ last.out.oneTime
    /\ okCount[last.id] = 1
    /\ ticks = 2
    /\ Len(jobs) = 1
    /\ inflight[1] = 0
    /\ ~jobs[1].running
    /\ last.id \notin StoreIds

\* The fields of an entry that are set at creation.
fixedFields(t) ==
    [id |-> t.id, text |-> t.text, cronExpression |-> t.cronExpression,
     oneTime |-> t.oneTime, createdAt |-> t.createdAt]

\* C23: an entry that is in the store before and after a step has the same
\* id, text, cronExpression, oneTime and createdAt, and its lastPosted and
\* postCount change only in a resolved firing of that entry.
C23_FixedFields ==
    [][file' # file =>
          \A id \in StoreIds \cap StoreIds' :
              /\ fixedFields(entry(id)') = fixedFields(entry(id))
              /\ entry(id)' # entry(id) =>
                    (last'.op = "fireOk" /\ last'.id = id)]_vars

\* A resolved firing has updated the second entry of the store, created
\* before the tick, next to an entry that was never posted.
C23_Witness ==
    /\ last.op = "fireOk"
    /\ Len(tweets) = 2
    /\ tweets[2].id = last.id
    /\ tweets[2].postCount = 1
    /\ tweets[2].lastPosted > tweets[2].createdAt
    /\ tweets[1].postCount = 0

\* C24: every entry of the store has a text that is non-empty after
\* trimming and of at most 280 units and an expression the validator
\* accepts; the entity scheduleTweet returns and stores has the expression
\* it was called with.
C24_StoredValid ==
    /\ [](\A i \in 1..Len(tweets) :
             /\ Length(trim(tweets[i].text)) > 0
             /\ Length(tweets[i].text) <= MaxTweetLength
             /\ cron_validate(tweets[i].cronExpression)
             /\ tweets[i].cronExpression \in ValidCrons)
    /\ [][\A cronExpression \in ValidCrons :
             ( /\ last'.op = "add"
               /\ last'.ok
               /\ \E text \in C6_AmendedTexts, oneTime \in BOOLEAN :
                     scheduleTweet(text, cronExpression, oneTime) ) =>
                 /\ last'.out.cronExpression = cronExpression
                 /\ loadScheduledTweets'[Len(loadScheduledTweets')].cronExpression
                       = cronExpression]_vars

\* The store holds a text of 279 units after trimming, as the entry a
\* scheduleTweet has just returned, after a posted entry.
C24_Witness ==
    /\ last.op = "add"
    /\ last.ok
    /\ Len(tweets) = 2
    /\ tweets[2] = last.out
    /\ Length(tweets[2].text) = MaxTweetLength - 1
    /\ tweets[1].postCount > 0

\* C26: every recurring entry of the store has as postCount the number of
\* firings of it that have completed with postTweetFn resolved.
C26_NoLostUpdate ==
    \A i \in 1..Len(tweets) :
        ~tweets[i].oneTime => tweets[i].postCount = okCount[tweets[i].id]

\* A firing of a recurring entry has resolved and been counted while a
\* second firing of the same job, started before, is still suspended.
C26_Witness ==
    /\ last.op = "fireOk"
    /\ ~last.out.oneTime
    /\ last.id \in StoreIds
    /\ entry(last.id).postCount = 1
    /\ last.id \in DOMAIN activeJobs
    /\ inflight[activeJobs[last.id]] = 1
    /\ Len(jobs) = 1

\* C27: for a one-time entry, at most one firing completes with postTweetFn
\* resolved.
C27_PostedOnce ==
    (last.op = "fireOk" /\ last.out.oneTime) => okCount[last.id] <= 1

\* C28: every entry of the store has postCount >= 0 and has lastPosted null
\* exactly when postCount is 0; the postCount of an entry that stays in the
\* store never decreases.
C28_Counters ==
    /\ [](\A i \in 1..Len(tweets) :
             /\ tweets[i].postCount \in Nat
             /\ (tweets[i].lastPosted = Null) <=> (tweets[i].postCount = 0))
    /\ [][file' # file =>
             \A id \in StoreIds \cap StoreIds' :
                 entry(id)'.postCount >= entry(id).postCount]_vars

\* The store holds an entry posted twice next to an entry never posted.
C28_Witness ==
    /\ Len(tweets) = 2
    /\ tweets[1].postCount = 2
    /\ tweets[1].lastPosted # Null
    /\ tweets[2].postCount = 0
    /\ tweets[2].lastPosted = Null

\* The jobs created for id in this process.
jobsOf(id) == { j \in 1..Len(jobs) : jobs[j].tweet.id = id }

\* postTweetFn has resolved for the one-time entry id, the entry is out of
\* the store and the id out of activeJobs, and a job of the entry is still
\* running.
Stuck(id) ==
    /\ okCount[id] > 0
    /\ id \notin StoreIds
    /\ id \notin DOMAIN activeJobs
    /\ \E j \in liveJobs(id) : jobs[j].tweet.oneTime

\* In a run without SIGINT and without removeScheduledTweet such a state
\* lasts: no step stops the job, registers the id or stores the entry again.
C29_StuckStays == [][\A id \in Ids : Stuck(id) => Stuck(id)']_vars

\* C29: in a run without SIGINT and without removeScheduledTweet, once
\* postTweetFn has resolved for a firing of a one-time entry, the run comes
\* to a state where the entry is out of the store, its id out of activeJobs
\* and no job of it running; so it is never in a state that lasts
\* (C29_StuckStays) where a job of it is still running.
C29_OneShotRemoved == \A id \in Ids : ~Stuck(id)

\* C30: mediaFiles holds at most 4 files none of which is a video, or
\* exactly one file, a video.
C30_MediaLimit ==
    \/ /\ Len(mediaFiles) <= 4
       /\ \A k \in 1..Len(mediaFiles) : mediaFiles[k].type # "video"
    \/ /\ Len(mediaFiles) = 1
       /\ mediaFiles[1].type = "video"
====
